---- MODULE Spec2Model ----
(***************************************************************************)
(* Model of src/src/main.cpp: an ESP32 Modbus-TCP slave that publishes a   *)
(* voltage setpoint (holding registers 0-1) and a temperature (holding     *)
(* registers 4-5) as IEEE-754 single precision values, and arbitrates the  *)
(* voltage between a remote client, an autonomous ramp and a rotary        *)
(* encoder.                                                                *)
(*                                                                         *)
(* A C `float` is modelled by its memory image: the two 16-bit words of    *)
(* union FloatRegs on the little-endian ESP32, w[0] the low-order and w[1] *)
(* the high-order half of the IEEE-754 pattern.  Arithmetic decodes the    *)
(* pattern to an exact fixed-point integer, computes, and rounds back to   *)
(* the nearest single (ties to even), as the FPU does.                     *)
(***************************************************************************)
EXTENDS Integers, Sequences, FiniteSets, TLC

\* ------------------------------------------------------------------------
\* Machine words
\* ------------------------------------------------------------------------

\* uint16_t holds 2^16 values (union FloatRegs, w[2]).
WordMod == 65536

Word == 0 .. (WordMod - 1)

RECURSIVE Pow2Rec(_)
Pow2Rec(n) == IF n = 0 THEN 1 ELSE 2 * Pow2Rec(n - 1)

\* 2^n for the bit positions of a 32-bit pattern, tabulated.
Pow2Table == [n \in 0 .. 30 |-> Pow2Rec(n)]
Pow2(n) == Pow2Table[n]

\* The memory image of union FloatRegs: w[0] = low word, w[1] = high word.
Flt(hi, lo) == (0 :> lo) @@ (1 :> hi)

\* IEEE-754 single precision fields of an image.
SignBit(f) == f[1] \div 32768
ExpBits(f) == (f[1] \div 128) % 256
ManBits(f) == (f[1] % 128) * WordMod + f[0]

MkFloat(s, e, m) == Flt(s * 32768 + e * 128 + (m \div WordMod), m % WordMod)

IsNaN(f)  == ExpBits(f) = 255 /\ ManBits(f) # 0
IsInf(f)  == ExpBits(f) = 255 /\ ManBits(f) = 0
IsZero(f) == ExpBits(f) = 0 /\ ManBits(f) = 0

\* ------------------------------------------------------------------------
\* Exact values.  One volt is UnitsPerVolt units, chosen so that every
\* single in [8, 256) and the decimal steps 0.1 are whole numbers of units:
\* UnitsPerVolt = 5 * 2^20, 0.1 = 2^19 units.
\* ------------------------------------------------------------------------
UnitsPerVolt == 5 * Pow2(20)
TenthUnits   == Pow2(19)

\* The magnitude of a finite single in units.  Defined (without overflow of
\* the model checker's integers) for |f| < 256 whose value is a multiple of 2^-20.
MagUnits(f) ==
    IF IsZero(f) THEN 0
    ELSE LET e   == ExpBits(f) - 127
             sig == Pow2(23) + ManBits(f)
         IN  IF e >= 3 THEN sig * 5 * Pow2(e - 3)
             ELSE (sig * 5) \div Pow2(3 - e)

Val(f) == IF SignBit(f) = 1 THEN 0 - MagUnits(f) ELSE MagUnits(f)

\* Round an exact value of n units to the nearest single, ties to even.
\* Defined for 8 <= |n| / UnitsPerVolt < 256 and for n = 0.
RoundToFloat(n) ==
    IF n = 0 THEN Flt(0, 0)
    ELSE LET s  == IF n < 0 THEN 1 ELSE 0
             m  == IF n < 0 THEN 0 - n ELSE n
             e  == CHOOSE x \in 3 .. 7 :
                      /\ 5 * Pow2(20 + x) <= m
                      /\ m - 5 * Pow2(20 + x) < 5 * Pow2(20 + x)
             u  == 5 * Pow2(e - 3)
             q  == m \div u
             r  == m % u
             q1 == IF 2 * r > u \/ (2 * r = u /\ q % 2 = 1) THEN q + 1 ELSE q
         IN  IF q1 = Pow2(24) THEN MkFloat(s, e + 128, 0)
             ELSE MkFloat(s, e + 127, q1 - Pow2(23))

\* A decimal literal with one fractional digit (24.00, 22.5, ...) converted
\* to float: tenths / 10 rounded to the nearest single.
FloatLit(tenths) == RoundToFloat(tenths * TenthUnits)

\* ------------------------------------------------------------------------
\* Comparisons (IEEE-754: every comparison with a NaN is false, -0 = +0).
\* ------------------------------------------------------------------------
MagLess(a, b) ==
    \/ ExpBits(a) < ExpBits(b)
    \/ ExpBits(a) = ExpBits(b) /\ ManBits(a) < ManBits(b)

FLt(a, b) ==
    /\ ~IsNaN(a) /\ ~IsNaN(b)
    /\ ~(IsZero(a) /\ IsZero(b))
    /\ IF SignBit(a) # SignBit(b) THEN SignBit(a) = 1
       ELSE IF SignBit(a) = 0 THEN MagLess(a, b) ELSE MagLess(b, a)

FEq(a, b) ==
    /\ ~IsNaN(a) /\ ~IsNaN(b)
    /\ (a = b \/ (IsZero(a) /\ IsZero(b)))

FGt(a, b) == FLt(b, a)
FLe(a, b) == FLt(a, b) \/ FEq(a, b)
FGe(a, b) == FLt(b, a) \/ FEq(a, b)
FNe(a, b) == ~FEq(a, b)


\* ------------------------------------------------------------------------
\* Arithmetic
\* ------------------------------------------------------------------------

\* Finite, fixed-point decodable and small enough (|f| < 128) that sums and
\* differences of two such values stay inside the model checker's integers.
InWindow(f) ==
    /\ ExpBits(f) # 255
    /\ \/ IsZero(f)
       \/ /\ ExpBits(f) # 0
          /\ ExpBits(f) - 127 \in (-20) .. 6
          /\ LET e == ExpBits(f) - 127
             IN  e < 3 => ((Pow2(23) + ManBits(f)) * 5) % Pow2(3 - e) = 0

\* An operand outside the domain on which the arithmetic below is exact:
\* evaluating it is an error of the model checker, never a made-up value.
Unsupported(f) == CHOOSE x \in {} : x = f

\* v + s * 0.1 with s = +1 / -1, as the C expressions `voltage += dir * 0.1`,
\* `voltage += 0.1`, `voltage -= 0.1` compute it: the float is promoted to
\* double, 0.1 is added, and the sum is converted back to float.  The double
\* sum is within 2^-48 of v + 1/10 and never that close to the midpoint of
\* two singles, so the result is v + 1/10 rounded once.  NaN and the
\* infinities are absorbing.
FAddTenth(v, s) ==
    IF IsNaN(v) \/ IsInf(v) THEN v
    ELSE IF InWindow(v) THEN RoundToFloat(Val(v) + s * TenthUnits)
    ELSE Unsupported(v)

AbsInt(n) == IF n < 0 THEN 0 - n ELSE n

\* abs(a - b) > 0.01: the float difference, its absolute value, compared
\* with the double 0.01.  NaN operands (and inf - inf) give NaN, which
\* compares false.  Two operands in the window differ by a whole number of
\* units, exactly representable near 0.01 = 52428.8 units.  Operands of
\* opposite sign or two binades apart, one of them >= 2^-5 in magnitude,
\* differ by more than 2^-6 > 0.01.
AbsDiffExceedsTol(a, b) ==
    IF IsNaN(a) \/ IsNaN(b) THEN FALSE
    ELSE IF IsInf(a) \/ IsInf(b)
         THEN ~(IsInf(a) /\ IsInf(b) /\ SignBit(a) = SignBit(b))
    ELSE IF InWindow(a) /\ InWindow(b)
         THEN AbsInt(Val(a) - Val(b)) > UnitsPerVolt \div 100
    ELSE IF /\ (ExpBits(a) >= 122 \/ ExpBits(b) >= 122)
            /\ \/ SignBit(a) # SignBit(b)
               \/ AbsInt(ExpBits(a) - ExpBits(b)) >= 2
         THEN TRUE
    ELSE Unsupported(a)

\* constrain(amt, low, high): ((amt)<(low)?(low):((amt)>(high)?(high):(amt)))
Constrain(amt, low, high) ==
    IF FLt(amt, low) THEN low ELSE IF FGt(amt, high) THEN high ELSE amt

\* ------------------------------------------------------------------------
\* unsigned long (32 bits on the ESP32), kept as <<high word, low word>>.
\* ------------------------------------------------------------------------
U32Add(a, d) ==
    << (a[1] + ((a[2] + d) \div WordMod)) % WordMod, (a[2] + d) % WordMod >>

U32Sub(a, b) ==
    LET borrow == IF a[2] < b[2] THEN 1 ELSE 0
    IN  << (a[1] - b[1] - borrow + 2 * WordMod) % WordMod,
           (a[2] - b[2] + WordMod) % WordMod >>

\* x >= k for a k below 2^16
U32AtLeast(x, k) == x[1] > 0 \/ x[2] >= k


\* ------------------------------------------------------------------------
\* Program constants
\* ------------------------------------------------------------------------
REG_VOLTAGE     == 0
REG_TEMPERATURE == 4

AUTO_MIN == FloatLit(225)
AUTO_MAX == FloatLit(255)
HARD_MIN == FloatLit(150)
HARD_MAX == FloatLit(300)

\* float voltage = 24.00; float temperature = 25.00;
VOLTAGE_INIT     == FloatLit(240)
TEMPERATURE_INIT == FloatLit(250)

\* static float lastV = -1; static float lastT = -1000;
LASTV_INIT == MkFloat(1, 127, 0)
LASTT_INIT == MkFloat(1, 136, 7995392)

\* DEVICE_DISCONNECTED_C, the sensor library's sentinel (-127 degrees C),
\* converted to float for the comparison with tempC.
DEVICE_DISCONNECTED_C == FloatLit(-1270)

\* Values written by clients in the scenarios checked: 40.0, 10.0, 29.9.
ABOVE_MAX  == FloatLit(400)
BELOW_MIN  == FloatLit(100)
NEAR_MAX   == FloatLit(299)
MINUS_INF  == Flt(65408, 0)
NAN_PAYLOAD == Flt(32704, 1)

\* Valid sensor readings: 26.5 and 25.0.
READING_A == FloatLit(265)
READING_B == FloatLit(250)

\* The interval of the ramp and of the temperature poll, and the delay of
\* one pass of the association wait loop, in milliseconds.
INTERVAL_MS   == 1000
WIFI_DELAY_MS == 500

\* ------------------------------------------------------------------------
\* Bounds of the model and the inputs of the environment
\* ------------------------------------------------------------------------

\* loop() is called at most MaxIter times.
MaxIter == 2

\* The association wait loop spins at most MaxWifiWaits times before the
\* network associates.
MaxWifiWaits == 2

\* Milliseconds one mb.task() call (with the rest of the iteration's
\* overhead) may take, and one blocking temperature conversion may take.
TaskDelays == {0, 500, 1000}
ConvDelays == {0, 500}

\* Values a Modbus client writes to the voltage slot: above HARD_MAX, below
\* HARD_MIN, inside the range near the upper clamp, minus infinity and a
\* NaN with a payload.
RemoteValues == { ABOVE_MAX, BELOW_MIN, NEAR_MAX, MINUS_INF, NAN_PAYLOAD }

\* Values a client writes to the temperature slot.
RemoteTemps == { ABOVE_MAX, Flt(0, 0) }

\* 16-bit values a client writes to the high word of the voltage slot with a
\* single-register write (0x4220 is the high word of 40.0).
RemoteWords == { 16928 }

\* Readings of the temperature sensor.
SensorReadings == { DEVICE_DISCONNECTED_C, READING_A, READING_B }

Levels == {0, 1}

\* ------------------------------------------------------------------------
\* State
\* ------------------------------------------------------------------------
VARIABLES
    pc,              \* position: "boot", "wifi", then the stages of loop()
    wifi,            \* WiFi.status() == WL_CONNECTED
    serverUp,        \* mb.server() has been called
    now,             \* millis()
    hreg,            \* the holding registers: address -> word
    voltage,         \* float voltage
    temperature,     \* float temperature
    autoDirection,   \* int autoDirection
    lastCLK,         \* int lastCLK
    lastAutoUpdate,  \* unsigned long lastAutoUpdate
    lastTempUpdate,  \* unsigned long lastTempUpdate
    clientVoltage,   \* loop()'s local clientVoltage
    lastV,           \* loop()'s static lastV
    lastT,           \* loop()'s static lastT
    serial,          \* the lines printed since the current stage began
    iter,            \* number of completed calls of loop()
    it               \* record of the current iteration (for the properties)

vars == << pc, wifi, serverUp, now, hreg, voltage, temperature, autoDirection,
           lastCLK, lastAutoUpdate, lastTempUpdate, clientVoltage, lastV,
           lastT, serial, iter, it >>

\* ------------------------------------------------------------------------
\* The register table (ModbusIP): addHreg / Hreg
\* ------------------------------------------------------------------------

\* mb.addHreg(addr): allocate the register with value 0.
AddHreg(h, addr) == IF addr \in DOMAIN h THEN h ELSE h @@ (addr :> 0)

\* mb.Hreg(addr): the register's value, 0 when it is not allocated.
HregGet(h, addr) == IF addr \in DOMAIN h THEN h[addr] ELSE 0

\* mb.Hreg(addr, value): set an allocated register.
HregSet(h, addr, value) ==
    IF addr \in DOMAIN h THEN [h EXCEPT ![addr] = value] ELSE h

\* ------------------------------------------------------------------------
\* Float <-> register codec
\* ------------------------------------------------------------------------

\* A swapped word order, as a slip in the union indices would produce.
WriteFloatToHregSwapped(h, startReg, value) ==
    HregSet(HregSet(h, startReg, value[0]), startReg + 1, value[1])

\* void writeFloatToHreg(uint16_t startReg, float value)
WriteFloatToHreg(h, startReg, value) ==
    LET data == value      \* data.f = value
    IN  HregSet(HregSet(h, startReg, data[1]), startReg + 1, data[0])

\* float readFloatFromHreg(uint16_t startReg)
ReadFloatFromHreg(h, startReg) ==
    (1 :> HregGet(h, startReg)) @@ (0 :> HregGet(h, startReg + 1))


\* ------------------------------------------------------------------------
\* The Modbus client (environment)
\* ------------------------------------------------------------------------

\* The words a client sends for a float, by the register map's word order.
RegWords(f) == << f[1], f[0] >>

\* A value within the 0.01 tolerance of the published voltage (0.005 above).
NearPublished(h) ==
    RoundToFloat(Val(ReadFloatFromHreg(h, REG_VOLTAGE)) + UnitsPerVolt \div 200)

NoRequest == [addr |-> 0, words |-> << >>]

\* The write requests served by one mb.task() call: none, a float to the
\* voltage slot, a float to the temperature slot, one register.
ClientRequests(h) ==
    {NoRequest}
    \cup {[addr |-> REG_VOLTAGE, words |-> RegWords(v)] : v \in RemoteValues}
    \cup {[addr |-> REG_VOLTAGE, words |-> RegWords(NearPublished(h))]}
    \cup {[addr |-> REG_TEMPERATURE, words |-> RegWords(v)] : v \in RemoteTemps}
    \cup {[addr |-> REG_VOLTAGE, words |-> << w >>] : w \in RemoteWords}

RECURSIVE ApplyWords(_, _, _)
ApplyWords(h, addr, words) ==
    IF words = << >> THEN h
    ELSE ApplyWords(HregSet(h, addr, Head(words)), addr + 1, Tail(words))

\* ------------------------------------------------------------------------
\* Initial state: the globals as initialised, before setup() runs
\* ------------------------------------------------------------------------
\* The record of an iteration: the state it began in (v0, dir0, t0, clk0),
\* the request served, whether the ramp was due, the levels sampled on the
\* encoder's pins, the sensor's reading when it was polled, and whether the
\* iteration before it printed the trace line (traced0).
FreshIteration(v, d, t, c) ==
    [v0 |-> v, dir0 |-> d, t0 |-> t, clk0 |-> c, req |-> NoRequest,
     due |-> FALSE, clk |-> c, dt |-> 0, polled |-> FALSE, tempC |-> t,
     traced0 |-> FALSE]

Init ==
    /\ pc = "boot"
    /\ wifi = FALSE
    /\ serverUp = FALSE
    /\ now = << 0, 0 >>
    /\ hreg = << >>
    /\ voltage = VOLTAGE_INIT
    /\ temperature = TEMPERATURE_INIT
    /\ autoDirection = 1
    /\ lastCLK = 0
    /\ lastAutoUpdate = << 0, 0 >>
    /\ lastTempUpdate = << 0, 0 >>
    /\ clientVoltage = Flt(0, 0)
    /\ lastV = LASTV_INIT
    /\ lastT = LASTT_INIT
    /\ serial = {}
    /\ iter = 0
    /\ it = FreshIteration(VOLTAGE_INIT, 1, TEMPERATURE_INIT, 0)

\* ------------------------------------------------------------------------
\* setup()
\* ------------------------------------------------------------------------

\* Serial.begin .. WiFi.begin: sample the encoder's CLK pin, start associating.
Boot ==
    /\ pc = "boot"
    /\ \E level \in Levels : lastCLK' = level
    /\ serial' = {"Connecting to WiFi"}
    /\ pc' = "wifi"
    /\ UNCHANGED << wifi, serverUp, now, hreg, voltage, temperature,
                    autoDirection, lastAutoUpdate, lastTempUpdate,
                    clientVoltage, lastV, lastT, iter, it >>

\* A wait loop that exits at once.
WaitOverAlways == TRUE

\* The exit condition of while (WiFi.status() != WL_CONNECTED).
WaitOver == wifi

\* One pass of while (WiFi.status() != WL_CONNECTED) { delay(500); ... }
WifiWait ==
    /\ pc = "wifi"
    /\ ~WaitOver
    /\ now[1] = 0 /\ now[2] < MaxWifiWaits * WIFI_DELAY_MS
    /\ now' = U32Add(now, WIFI_DELAY_MS)
    /\ serial' = serial \cup {"."}
    /\ UNCHANGED << pc, wifi, serverUp, hreg, voltage, temperature,
                    autoDirection, lastCLK, lastAutoUpdate, lastTempUpdate,
                    clientVoltage, lastV, lastT, iter, it >>

\* The network associates (environment).
WifiAssociate ==
    /\ pc = "wifi"
    /\ ~wifi
    /\ wifi' = TRUE
    /\ UNCHANGED << pc, serverUp, now, hreg, voltage, temperature,
                    autoDirection, lastCLK, lastAutoUpdate, lastTempUpdate,
                    clientVoltage, lastV, lastT, serial, iter, it >>

\* The rest of setup() once the wait loop exits: start the server, allocate
\* the four registers, publish the defaults.
SetupFinish ==
    /\ pc = "wifi"
    /\ WaitOver
    /\ serverUp' = TRUE
    /\ hreg' =
         LET h4 == AddHreg(AddHreg(AddHreg(AddHreg(hreg,
                      REG_VOLTAGE), REG_VOLTAGE + 1),
                      REG_TEMPERATURE), REG_TEMPERATURE + 1)
         IN  WriteFloatToHreg(WriteFloatToHreg(h4, REG_VOLTAGE, voltage),
                              REG_TEMPERATURE, temperature)
    /\ serial' = {"WiFi connected", "Modbus TCP Slave started"}
    /\ pc' = "task"
    /\ UNCHANGED << wifi, now, voltage, temperature, autoDirection, lastCLK,
                    lastAutoUpdate, lastTempUpdate, clientVoltage, lastV,
                    lastT, iter, it >>

\* ------------------------------------------------------------------------
\* loop(), one action per block
\* ------------------------------------------------------------------------

\* mb.task(): serve the client's pending request, if any.  `delays` are
\* the times the call may take, `reqs` the requests that may be pending.
MbTaskStep(bound, delays, reqs) ==
    /\ pc = "task"
    /\ iter < bound
    /\ \E d \in delays, req \in reqs :
          /\ now' = U32Add(now, d)
          /\ hreg' = ApplyWords(hreg, req.addr, req.words)
          /\ it' = [FreshIteration(voltage, autoDirection, temperature,
                                   lastCLK)
                    EXCEPT !.req = req,
                           !.traced0 = "Voltage = | Temperature =" \in serial]
    /\ serial' = {}
    /\ pc' = "client"
    /\ UNCHANGED << wifi, serverUp, voltage, temperature, autoDirection,
                    lastCLK, lastAutoUpdate, lastTempUpdate, clientVoltage,
                    lastV, lastT, iter >>

\* A remote-write test that never fires.
ClientAdoptsNever(cv, v) == FALSE

\* A remote-write test that fires on every iteration.
ClientAdoptsAlways(cv, v) == TRUE

\* A remote-write test without the tolerance.
ClientAdoptsAnyChange(cv, v) == FNe(cv, v)

\* The remote-write test of loop().
ClientAdopts(cv, v) == AbsDiffExceedsTol(cv, v)

\* CLIENT WRITE (VOLTAGE)
ClientWrite ==
    /\ pc = "client"
    /\ LET cv == ReadFloatFromHreg(hreg, REG_VOLTAGE)
       IN  /\ clientVoltage' = cv
           /\ IF ClientAdopts(cv, voltage)
              THEN /\ voltage' = cv
                   /\ serial' = serial \cup {"Voltage updated by client"}
              ELSE UNCHANGED << voltage, serial >>
    /\ pc' = "auto"
    /\ UNCHANGED << wifi, serverUp, now, hreg, temperature, autoDirection,
                    lastCLK, lastAutoUpdate, lastTempUpdate, lastV, lastT,
                    iter, it >>

\* A test against an absolute deadline: millis() >= last + 1000, with the
\* sum and the comparison in unsigned 32-bit arithmetic.
DueByDeadline(last) ==
    LET deadline == U32Add(last, INTERVAL_MS)
    IN  \/ now[1] > deadline[1]
        \/ now[1] = deadline[1] /\ now[2] >= deadline[2]

\* An elapsed-time test that fires only after more than the interval.
DueLate(last) == U32AtLeast(U32Sub(now, last), INTERVAL_MS + 1)

\* millis() - last >= 1000
Due(last) == U32AtLeast(U32Sub(now, last), INTERVAL_MS)

\* A ramp that never reverses.
NextDirectionKept(v, d) == d

\* Reversal tests that compare for equality.
NextDirectionAtBound(v, d) ==
    IF FEq(v, AUTO_MAX) THEN -1 ELSE IF FEq(v, AUTO_MIN) THEN 1 ELSE d

\* The reversal tests with strict comparisons.
NextDirectionStrict(v, d) ==
    LET d1 == IF FGt(v, AUTO_MAX) THEN -1 ELSE d
    IN  IF FLt(v, AUTO_MIN) THEN 1 ELSE d1

\* if (voltage >= AUTO_MAX) autoDirection = -1;
\* if (voltage <= AUTO_MIN) autoDirection = 1;
NextDirection(v, d) ==
    LET d1 == IF FGe(v, AUTO_MAX) THEN -1 ELSE d
    IN  IF FLe(v, AUTO_MIN) THEN 1 ELSE d1

\* A ramp step that leaves the voltage alone.
RampStepNone(v, d) == v

\* voltage += autoDirection * 0.1
RampStep(v, d) == FAddTenth(v, d)

\* AUTO VOLTAGE UPDATE
AutoUpdate ==
    /\ pc = "auto"
    /\ IF Due(lastAutoUpdate)
       THEN /\ voltage' = RampStep(voltage, autoDirection)
            /\ autoDirection' = NextDirection(voltage', autoDirection)
            /\ lastAutoUpdate' = now
            /\ it' = [it EXCEPT !.due = TRUE]
       ELSE UNCHANGED << voltage, autoDirection, lastAutoUpdate, it >>
    /\ pc' = "encoder"
    /\ UNCHANGED << wifi, serverUp, now, hreg, temperature, lastCLK,
                    lastTempUpdate, clientVoltage, lastV, lastT, serial,
                    iter >>

\* The encoder block with the two directions exchanged.
ManualStepInverted(last, clk, dt) ==
    IF clk # last THEN (IF dt # clk THEN -1 ELSE 1) ELSE 0

\* The signed step of the encoder block: 0 without an edge on CLK, else +1
\* when DT differs from the new CLK level and -1 when it equals it.
ManualStep(last, clk, dt) ==
    IF clk # last THEN (IF dt # clk THEN 1 ELSE -1) ELSE 0

\* MANUAL ENCODER
\* `clks` are the levels the CLK pin may show.
EncoderStep(clks) ==
    /\ pc = "encoder"
    /\ \E currentCLK \in clks, dt \in Levels :
          LET step == ManualStep(lastCLK, currentCLK, dt)
          IN  /\ voltage' = IF step = 0 THEN voltage
                            ELSE FAddTenth(voltage, step)
              /\ lastCLK' = currentCLK
              /\ it' = [it EXCEPT !.clk = currentCLK, !.dt = dt]
    /\ pc' = "clamp"
    /\ UNCHANGED << wifi, serverUp, now, hreg, temperature, autoDirection,
                    lastAutoUpdate, lastTempUpdate, clientVoltage, lastV,
                    lastT, serial, iter >>

\* The clamp left out.
ClampedNot(v) == v

\* The clamp with its upper bound left out.
ClampedBelowOnly(v) == IF FLt(v, HARD_MIN) THEN HARD_MIN ELSE v

\* voltage = constrain(voltage, HARD_MIN, HARD_MAX)
Clamped(v) == Constrain(v, HARD_MIN, HARD_MAX)

Clamp ==
    /\ pc = "clamp"
    /\ voltage' = Clamped(voltage)
    /\ pc' = "temp"
    /\ UNCHANGED << wifi, serverUp, now, hreg, temperature, autoDirection,
                    lastCLK, lastAutoUpdate, lastTempUpdate, clientVoltage,
                    lastV, lastT, serial, iter, it >>

\* The reading stored without the sentinel test.
StoreReadingAlways(t, tempC) == tempC

\* if (tempC != DEVICE_DISCONNECTED_C) temperature = tempC;
StoreReading(t, tempC) ==
    IF FNe(tempC, DEVICE_DISCONNECTED_C) THEN tempC ELSE t

\* TEMPERATURE READ: the conversion may block for one of `delays`;
\* lastTempUpdate is stamped after it.  `readings` are the values the
\* sensor may return.
TemperatureReadStep(delays, readings) ==
    /\ pc = "temp"
    /\ IF Due(lastTempUpdate)
       THEN \E d \in delays, tempC \in readings :
               /\ temperature' = StoreReading(temperature, tempC)
               /\ now' = U32Add(now, d)
               /\ lastTempUpdate' = now'
               /\ it' = [it EXCEPT !.polled = TRUE, !.tempC = tempC]
       ELSE UNCHANGED << temperature, now, lastTempUpdate, it >>
    /\ pc' = "publish"
    /\ UNCHANGED << wifi, serverUp, hreg, voltage, autoDirection, lastCLK,
                    lastAutoUpdate, clientVoltage, lastV, lastT, serial,
                    iter >>

\* A change test without the tolerance.
ChangedAtAll(v, t, lv, lt) == FNe(v, lv) \/ FNe(t, lt)

\* abs(voltage - lastV) > 0.01 || abs(temperature - lastT) > 0.01
Changed(v, t, lv, lt) == AbsDiffExceedsTol(v, lv) \/ AbsDiffExceedsTol(t, lt)

\* Publishing moved under the change test of the debug output.
PublishedIfChanged(h, v, t) ==
    IF Changed(v, t, lastV, lastT)
    THEN WriteFloatToHreg(WriteFloatToHreg(h, REG_VOLTAGE, v),
                          REG_TEMPERATURE, t)
    ELSE h

\* Publishing the voltage only.
PublishedVoltageOnly(h, v, t) == WriteFloatToHreg(h, REG_VOLTAGE, v)

\* The registers after UPDATE MODBUS REGISTERS.
Published(h, v, t) ==
    WriteFloatToHreg(WriteFloatToHreg(h, REG_VOLTAGE, v), REG_TEMPERATURE, t)

Publish ==
    /\ pc = "publish"
    /\ hreg' = Published(hreg, voltage, temperature)
    /\ pc' = "debug"
    /\ UNCHANGED << wifi, serverUp, now, voltage, temperature, autoDirection,
                    lastCLK, lastAutoUpdate, lastTempUpdate, clientVoltage,
                    lastV, lastT, serial, iter, it >>

\* DEBUG OUTPUT: the end of loop().
DebugOutput ==
    /\ pc = "debug"
    /\ IF Changed(voltage, temperature, lastV, lastT)
       THEN /\ serial' = serial \cup {"Voltage = | Temperature ="}
            /\ lastV' = voltage
            /\ lastT' = temperature
       ELSE UNCHANGED << serial, lastV, lastT >>
    /\ iter' = iter + 1
    /\ pc' = "task"
    /\ UNCHANGED << wifi, serverUp, now, hreg, voltage, temperature,
                    autoDirection, lastCLK, lastAutoUpdate, lastTempUpdate,
                    clientVoltage, it >>

\* The steps with the environment of the full model.
MbTask          == MbTaskStep(MaxIter, TaskDelays, ClientRequests(hreg))
Encoder         == EncoderStep(Levels)
TemperatureRead == TemperatureReadStep(ConvDelays, SensorReadings)

Next ==
    \/ Boot
    \/ WifiWait
    \/ WifiAssociate
    \/ SetupFinish
    \/ MbTask
    \/ ClientWrite
    \/ AutoUpdate
    \/ Encoder
    \/ Clamp
    \/ TemperatureRead
    \/ Publish
    \/ DebugOutput

Spec == Init /\ [][Next]_vars

\* ------------------------------------------------------------------------
\* The ramp alone: the loop running from VoltageState = AUTO_MIN with
\* direction +1, one ramp interval per iteration, no client request and no
\* edge on the encoder.
\* ------------------------------------------------------------------------

\* loop() is called at most MaxRampIter times (two periods of the ramp and
\* a little more).
MaxRampIter == 125

InitRamp ==
    /\ pc = "task"
    /\ wifi = TRUE
    /\ serverUp = TRUE
    /\ now = << 0, 0 >>
    /\ voltage = AUTO_MIN
    /\ temperature = TEMPERATURE_INIT
    /\ hreg = Published(AddHreg(AddHreg(AddHreg(AddHreg(<< >>,
                 REG_VOLTAGE), REG_VOLTAGE + 1),
                 REG_TEMPERATURE), REG_TEMPERATURE + 1),
                 AUTO_MIN, TEMPERATURE_INIT)
    /\ autoDirection = 1
    /\ lastCLK \in Levels
    /\ lastAutoUpdate = << 0, 0 >>
    /\ lastTempUpdate = << 0, 0 >>
    /\ clientVoltage = AUTO_MIN
    /\ lastV = AUTO_MIN
    /\ lastT = TEMPERATURE_INIT
    /\ serial = {}
    /\ iter = 0
    /\ it = FreshIteration(AUTO_MIN, 1, TEMPERATURE_INIT, lastCLK)

RampTask            == MbTaskStep(MaxRampIter, {INTERVAL_MS}, {NoRequest})
RampEncoder         == EncoderStep({lastCLK})
RampTemperatureRead == TemperatureReadStep({0}, SensorReadings)

NextRamp ==
    \/ RampTask
    \/ ClientWrite
    \/ AutoUpdate
    \/ RampEncoder
    \/ Clamp
    \/ RampTemperatureRead
    \/ Publish
    \/ DebugOutput

SpecRamp == InitRamp /\ [][NextRamp]_vars

\* ------------------------------------------------------------------------
\* The codec alone: writeFloatToHreg then readFloatFromHreg on arbitrary
\* 32-bit patterns, at both register slots.
\* ------------------------------------------------------------------------
CodecHighWords == { 0, 1, 15820, 16832, 32640, 32704, 32768, 49918, 65535 }
CodecLowWords  == { 0, 1, 52429, 32768, 65535 }
CodecPatterns  == { Flt(hi, lo) : hi \in CodecHighWords, lo \in CodecLowWords }

InitCodec ==
    /\ pc = "codec_write"
    /\ wifi = TRUE
    /\ serverUp = TRUE
    /\ now = << 0, 0 >>
    /\ voltage \in CodecPatterns
    /\ temperature \in { Flt(16840, 0), Flt(32704, 1), Flt(1, 65535) }
    /\ hreg = AddHreg(AddHreg(AddHreg(AddHreg(<< >>,
                 REG_VOLTAGE), REG_VOLTAGE + 1),
                 REG_TEMPERATURE), REG_TEMPERATURE + 1)
    /\ autoDirection = 1
    /\ lastCLK = 0
    /\ lastAutoUpdate = << 0, 0 >>
    /\ lastTempUpdate = << 0, 0 >>
    /\ clientVoltage = Flt(0, 0)
    /\ lastV = LASTV_INIT
    /\ lastT = LASTT_INIT
    /\ serial = {}
    /\ iter = 0
    /\ it = FreshIteration(voltage, 1, temperature, 0)

\* writeFloatToHreg(REG_VOLTAGE, voltage); writeFloatToHreg(REG_TEMPERATURE, ..)
CodecWrite ==
    /\ pc = "codec_write"
    /\ hreg' = Published(hreg, voltage, temperature)
    /\ pc' = "codec_read"
    /\ UNCHANGED << wifi, serverUp, now, voltage, temperature, autoDirection,
                    lastCLK, lastAutoUpdate, lastTempUpdate, clientVoltage,
                    lastV, lastT, serial, iter, it >>

\* clientVoltage = readFloatFromHreg(startReg), at either slot
CodecRead ==
    /\ pc = "codec_read"
    /\ \E startReg \in {REG_VOLTAGE, REG_TEMPERATURE} :
          /\ clientVoltage' = ReadFloatFromHreg(hreg, startReg)
          /\ it' = [it EXCEPT !.req = [addr |-> startReg, words |-> << >>]]
    /\ pc' = "codec_done"
    /\ UNCHANGED << wifi, serverUp, now, hreg, voltage, temperature,
                    autoDirection, lastCLK, lastAutoUpdate, lastTempUpdate,
                    lastV, lastT, serial, iter >>

NextCodec == CodecWrite \/ CodecRead

SpecCodec == InitCodec /\ [][NextCodec]_vars


\* ------------------------------------------------------------------------
\* The trace line under slow drift: an iteration sequence that starts right
\* after a trace line was printed, with VoltageState at or just below the
\* upper hard limit, in which the iterations take 0 or 1000 ms, the encoder
\* may turn and the sensor returns readings 1/128 degree apart.
\* ------------------------------------------------------------------------
MaxLogIter == 4

\* 29.995 V (HARD_MAX less 26210 units) and the readings 25 + 1/128 and
\* 25 + 1/64 degrees.
JUST_BELOW_MAX == RoundToFloat(30 * UnitsPerVolt - 26210)
FINE_A == RoundToFloat(25 * UnitsPerVolt + UnitsPerVolt \div 128)
FINE_B == RoundToFloat(25 * UnitsPerVolt + UnitsPerVolt \div 64)
LogReadings == { READING_B, FINE_A, FINE_B }

InitLog ==
    /\ pc = "task"
    /\ wifi = TRUE
    /\ serverUp = TRUE
    /\ now = << 0, INTERVAL_MS >>
    /\ voltage \in { HARD_MAX, JUST_BELOW_MAX }
    /\ temperature = READING_B
    /\ hreg = Published(AddHreg(AddHreg(AddHreg(AddHreg(<< >>,
                 REG_VOLTAGE), REG_VOLTAGE + 1),
                 REG_TEMPERATURE), REG_TEMPERATURE + 1),
                 voltage, temperature)
    /\ autoDirection \in {-1, 1}
    /\ lastCLK \in Levels
    /\ lastAutoUpdate = now
    /\ lastTempUpdate = now
    /\ clientVoltage = voltage
    /\ lastV = voltage
    /\ lastT = temperature
    /\ serial = {"Voltage = | Temperature ="}
    /\ iter = 0
    /\ it = FreshIteration(voltage, autoDirection, temperature, lastCLK)

LogTask            == MbTaskStep(MaxLogIter, {0, INTERVAL_MS}, {NoRequest})
LogEncoder         == EncoderStep(Levels)
LogTemperatureRead == TemperatureReadStep({0}, LogReadings)

NextLog ==
    \/ LogTask
    \/ ClientWrite
    \/ AutoUpdate
    \/ LogEncoder
    \/ Clamp
    \/ LogTemperatureRead
    \/ Publish
    \/ DebugOutput

SpecLog == InitLog /\ [][NextLog]_vars


\* ------------------------------------------------------------------------
\* The ramp from outside its band: VoltageState starts at a hard limit or at
\* 29.9 V with the direction pointing either way (a remote write, clamped or
\* not, left it there); the ramp block fires in every iteration, no request
\* arrives and the encoder does not turn.  loop() is called again and again
\* and every block of it terminates, hence the fairness condition.
\* ------------------------------------------------------------------------
MaxReturnIter == 140

ReturnStarts == { HARD_MAX, HARD_MIN, NEAR_MAX }

InitReturn ==
    /\ pc = "task"
    /\ wifi = TRUE
    /\ serverUp = TRUE
    /\ now = << 0, 0 >>
    /\ voltage \in ReturnStarts
    /\ temperature = TEMPERATURE_INIT
    /\ hreg = Published(AddHreg(AddHreg(AddHreg(AddHreg(<< >>,
                 REG_VOLTAGE), REG_VOLTAGE + 1),
                 REG_TEMPERATURE), REG_TEMPERATURE + 1),
                 voltage, temperature)
    /\ autoDirection \in {-1, 1}
    /\ lastCLK = 0
    /\ lastAutoUpdate = << 0, 0 >>
    /\ lastTempUpdate = << 0, 0 >>
    /\ clientVoltage = voltage
    /\ lastV = voltage
    /\ lastT = temperature
    /\ serial = {}
    /\ iter = 0
    /\ it = FreshIteration(voltage, autoDirection, temperature, lastCLK)

ReturnTask            == MbTaskStep(MaxReturnIter, {INTERVAL_MS}, {NoRequest})
ReturnEncoder         == EncoderStep({lastCLK})
ReturnTemperatureRead ==
    TemperatureReadStep({0}, {DEVICE_DISCONNECTED_C, READING_B})

NextReturn ==
    \/ ReturnTask
    \/ ClientWrite
    \/ AutoUpdate
    \/ ReturnEncoder
    \/ Clamp
    \/ ReturnTemperatureRead
    \/ Publish
    \/ DebugOutput

SpecReturn == InitReturn /\ [][NextReturn]_vars /\ WF_vars(NextReturn)


\* ------------------------------------------------------------------------
\* Remote writes around the tolerance: from the state setup() leaves, every
\* iteration serves a write to the voltage slot that lies 52420 or 52430
\* units (0.01 V is 52428.8) below or above the published value, or one
\* that changes only the low register; iterations take 0 or 1000 ms and the
\* encoder may turn.
\* ------------------------------------------------------------------------
MaxTolIter == 2

ToleranceOffsets == { -52430, -52420, 52420, 52430 }

NearRequests(h) ==
    {[addr |-> REG_VOLTAGE,
      words |-> RegWords(RoundToFloat(Val(ReadFloatFromHreg(h, REG_VOLTAGE))
                                       + k))] : k \in ToleranceOffsets}
    \cup {[addr |-> REG_VOLTAGE + 1,
           words |-> << (HregGet(h, REG_VOLTAGE + 1) + 1) % WordMod >>]}

InitTol ==
    /\ pc = "task"
    /\ wifi = TRUE
    /\ serverUp = TRUE
    /\ now = << 0, 0 >>
    /\ voltage = VOLTAGE_INIT
    /\ temperature = TEMPERATURE_INIT
    /\ hreg = Published(AddHreg(AddHreg(AddHreg(AddHreg(<< >>,
                 REG_VOLTAGE), REG_VOLTAGE + 1),
                 REG_TEMPERATURE), REG_TEMPERATURE + 1),
                 voltage, temperature)
    /\ autoDirection = 1
    /\ lastCLK \in Levels
    /\ lastAutoUpdate = << 0, 0 >>
    /\ lastTempUpdate = << 0, 0 >>
    /\ clientVoltage = Flt(0, 0)
    /\ lastV = LASTV_INIT
    /\ lastT = LASTT_INIT
    /\ serial = {"WiFi connected", "Modbus TCP Slave started"}
    /\ iter = 0
    /\ it = FreshIteration(voltage, autoDirection, temperature, 0)

TolTask            == MbTaskStep(MaxTolIter, {0, INTERVAL_MS}, NearRequests(hreg))
TolEncoder         == EncoderStep(Levels)
TolTemperatureRead == TemperatureReadStep({0}, {READING_B})

NextTol ==
    \/ TolTask
    \/ ClientWrite
    \/ AutoUpdate
    \/ TolEncoder
    \/ Clamp
    \/ TolTemperatureRead
    \/ Publish
    \/ DebugOutput

SpecTol == InitTol /\ [][NextTol]_vars


\* ------------------------------------------------------------------------
\* The clock wrapping to 0: the device has been up for 2^32 - 1000 ms, the
\* ramp and the poll were last stamped then or 500 ms before; iterations
\* take 1, 499 or 1000 ms and a conversion 0 or 500 ms, so that the clock
\* passes 2^32 within the first two iterations at the latest.
\* ------------------------------------------------------------------------
MaxWrapIter == 5

WrapDelays == {1, 499, 1000}

\* 2^32 - 1000
BeforeWrap == << WordMod - 1, WordMod - INTERVAL_MS >>

InitWrap ==
    /\ pc = "task"
    /\ wifi = TRUE
    /\ serverUp = TRUE
    /\ now = BeforeWrap
    /\ voltage = VOLTAGE_INIT
    /\ temperature = TEMPERATURE_INIT
    /\ hreg = Published(AddHreg(AddHreg(AddHreg(AddHreg(<< >>,
                 REG_VOLTAGE), REG_VOLTAGE + 1),
                 REG_TEMPERATURE), REG_TEMPERATURE + 1),
                 voltage, temperature)
    /\ autoDirection = 1
    /\ lastCLK = 0
    /\ lastAutoUpdate \in { now, U32Sub(now, << 0, 500 >>) }
    /\ lastTempUpdate \in { now, U32Sub(now, << 0, 500 >>) }
    /\ clientVoltage = voltage
    /\ lastV = voltage
    /\ lastT = temperature
    /\ serial = {}
    /\ iter = 0
    /\ it = FreshIteration(voltage, autoDirection, temperature, lastCLK)

WrapTask            == MbTaskStep(MaxWrapIter, WrapDelays, {NoRequest})
WrapEncoder         == EncoderStep({lastCLK})
WrapTemperatureRead == TemperatureReadStep(ConvDelays, {READING_B})

NextWrap ==
    \/ WrapTask
    \/ ClientWrite
    \/ AutoUpdate
    \/ WrapEncoder
    \/ Clamp
    \/ WrapTemperatureRead
    \/ Publish
    \/ DebugOutput

SpecWrap == InitWrap /\ [][NextWrap]_vars


\* ------------------------------------------------------------------------
\* Properties
\* ------------------------------------------------------------------------

\* The states between two calls of loop(): setup() or an iteration has
\* just ended.
IterationEnded == pc = "task" /\ iter > 0
BetweenIterations == pc = "task"

\* HARD_MIN <= v <= HARD_MAX
WithinHardLimits(v) == FLe(HARD_MIN, v) /\ FLe(v, HARD_MAX)

\* The two finite values differ by more than 0.01 V (52428.8 units).
DiffersBeyondTol(a, b) == AbsInt(Val(a) - Val(b)) > UnitsPerVolt \div 100

\* The request of the current iteration wrote float v to the voltage slot.
WroteVoltage(v) == it.req = [addr |-> REG_VOLTAGE, words |-> << v[1], v[0] >>]

\* The encoder step the sampled levels call for: 0 without an edge, +1 when
\* the secondary level differs from the new primary level, -1 when equal.
ExpectedManual ==
    IF it.clk = it.clk0 THEN 0 ELSE IF it.dt # it.clk THEN 1 ELSE -1

\* v moved by k tenths, k in {-1, 0, 1}.
Moved(v, k) == IF k = 0 THEN v ELSE FAddTenth(v, k)

\* The value the arbitration order yields from base b: the ramp step if it
\* was due (in the direction the iteration began with), then the encoder
\* step, then the clamp.
Arbitrated(b) ==
    Constrain(Moved(Moved(b, IF it.due THEN it.dir0 ELSE 0), ExpectedManual),
              HARD_MIN, HARD_MAX)

\* C1: outside the window between remote adoption and the clamp of one
\* iteration - in particular initially, during setup and at the end of every
\* iteration, whatever was written remotely, whether or not the ramp ticked
\* and whatever the encoder did - HARD_MIN <= VoltageState <= HARD_MAX.
ClampInvariant ==
    pc \notin {"auto", "encoder", "clamp"} => WithinHardLimits(voltage)

\* C1 witness: an iteration that adopted 40.0, ramped and stepped manually
\* has ended with VoltageState clamped to HARD_MAX.
ClampWitness ==
    /\ IterationEnded
    /\ WroteVoltage(ABOVE_MAX)
    /\ it.due /\ ExpectedManual = 1
    /\ voltage = HARD_MAX

OutOfRangeCommandClamped ==
    WroteVoltage(ABOVE_MAX) =>
       /\ pc = "auto" =>
             /\ voltage = ABOVE_MAX
             /\ "Voltage updated by client" \in serial
       /\ pc \in {"debug", "task"} =>
             /\ ReadFloatFromHreg(hreg, REG_VOLTAGE) = HARD_MAX
             /\ ReadFloatFromHreg(hreg, REG_VOLTAGE) # ABOVE_MAX
             /\ hreg[REG_VOLTAGE] = 16880 /\ hreg[REG_VOLTAGE + 1] = 0

\* C3 witness: 40.0 was written, the ramp ticked downwards and the encoder
\* stepped down in the same iteration, and the registers hold 30.0.
OutOfRangeWitness ==
    /\ IterationEnded
    /\ WroteVoltage(ABOVE_MAX)
    /\ it.due /\ it.dir0 = -1 /\ ExpectedManual = -1
    /\ ReadFloatFromHreg(hreg, REG_VOLTAGE) = HARD_MAX

\* C4: at the end of every iteration VoltageState is the base value (the
\* remote value if one was detected, else the value the iteration began
\* with) plus the ramp step if due, plus the encoder step, clamped - in that
\* order; a detected remote write does not suppress the encoder step.
OverwriteOrder ==
    IterationEnded =>
       LET adopted == "Voltage updated by client" \in serial
           base    == IF adopted THEN clientVoltage ELSE it.v0
       IN  /\ voltage = Arbitrated(base)
           /\ adopted <=> ( /\ ~IsNaN(clientVoltage)
                            /\ (InWindow(clientVoltage)
                                  => DiffersBeyondTol(clientVoltage, it.v0)) )

\* C4 witness: 29.9 was adopted, the ramp stepped up and the encoder
\* stepped down in one iteration, and the result differs from what the
\* encoder step alone or the remote value alone would give.
OverwriteOrderWitness ==
    /\ IterationEnded
    /\ WroteVoltage(NEAR_MAX)
    /\ "Voltage updated by client" \in serial
    /\ it.due /\ it.dir0 = 1 /\ ExpectedManual = 1
    /\ voltage = HARD_MAX


\* One single-precision ramp step from the band's lower end: 0.1 V rounded
\* to the 2^-19 V grid of [16, 32), i.e. 52429 * 2^-19 V = 0.1 V + 2 units.
RampStepUnits == TenthUnits + 2

\* Position in the 60-tick period after n ramp ticks: the number of steps
\* above AUTO_MIN.
StepsAboveMin(n) == IF n % 60 <= 30 THEN n % 60 ELSE 60 - (n % 60)

\* AUTO_MAX + 0.1
ABOVE_AUTO_MAX == FAddTenth(AUTO_MAX, 1)

\* C5 as stated (its band): with the ramp alone, from AUTO_MIN and
\* direction +1, VoltageState never leaves [AUTO_MIN, AUTO_MAX].
RampStaysInBand == FLe(AUTO_MIN, voltage) /\ FLe(voltage, AUTO_MAX)

\* C5 as amended: with the ramp alone, from AUTO_MIN and direction +1, the
\* n-th tick leaves VoltageState StepsAboveMin(n) single-precision steps
\* above AUTO_MIN: 30 ticks up, the 30th reaching 25.5 V + 6 ulp (not 25.5)
\* and turning the direction to -1, then 30 ticks down, the 60th reaching
\* AUTO_MIN exactly and turning the direction to +1, and so on with period
\* 60; VoltageState stays in [AUTO_MIN, AUTO_MAX + 0.1), above AUTO_MAX only
\* at the peak.
RampHysteresis ==
    /\ FLe(AUTO_MIN, voltage) /\ FLt(voltage, ABOVE_AUTO_MAX)
    /\ FGt(voltage, AUTO_MAX) => Val(voltage) = Val(AUTO_MAX) + 60
    /\ BetweenIterations =>
          /\ Val(voltage) = Val(AUTO_MIN) + StepsAboveMin(iter) * RampStepUnits
          /\ autoDirection = IF iter % 60 < 30 THEN 1 ELSE -1
          /\ iter > 0 => it.due
          /\ FGe(voltage, AUTO_MAX) <=> iter % 60 = 30
          /\ FLe(voltage, AUTO_MIN) <=> iter % 60 = 0

\* C5 witness: in the second period the ramp is at its peak again, the
\* direction turned downwards.
RampWitness ==
    /\ BetweenIterations
    /\ iter = 90
    /\ FGe(voltage, AUTO_MAX)
    /\ autoDirection = -1
    /\ it.dir0 = 1

\* The two halves of a pattern by its IEEE-754 fields: sign, exponent and
\* the top 7 bits of the fraction; the low 16 bits of the fraction.
HighHalf(f) == SignBit(f) * 32768 + ExpBits(f) * 128 + ManBits(f) \div WordMod
LowHalf(f)  == ManBits(f) % WordMod

\* C6: after writeFloatToHreg(N, p) register N holds the high-order 16 bits
\* of p and register N + 1 the low-order 16 bits, and readFloatFromHreg(N)
\* returns p bit for bit - for NaNs with payloads, infinities, denormals
\* and zeros as for ordinary numbers.
CodecRoundTrip ==
    /\ pc \in {"codec_read", "codec_done"} =>
          /\ hreg[REG_VOLTAGE] = HighHalf(voltage)
          /\ hreg[REG_VOLTAGE + 1] = LowHalf(voltage)
          /\ hreg[REG_TEMPERATURE] = HighHalf(temperature)
          /\ hreg[REG_TEMPERATURE + 1] = LowHalf(temperature)
    /\ pc = "codec_done" =>
          clientVoltage = IF it.req.addr = REG_VOLTAGE THEN voltage
                          ELSE temperature

\* C6 witness: a negative number with all sixteen low bits distinct from the
\* high ones has made the round trip.
CodecWitness ==
    /\ pc = "codec_done"
    /\ it.req.addr = REG_VOLTAGE
    /\ voltage = Flt(49918, 52429)
    /\ clientVoltage = Flt(49918, 52429)
    /\ hreg[REG_VOLTAGE] = 49918
    /\ hreg[REG_VOLTAGE + 1] = 52429

\* The trace line of the debug output was printed in this iteration.
TraceEmitted == "Voltage = | Temperature =" \in serial

\* The current iteration's request wrote to the temperature slot.
WroteTemperature ==
    it.req.addr = REG_TEMPERATURE /\ it.req.words # << >>

\* C7: when setup() has finished and whenever an iteration has published
\* (before and after its debug output), registers 0-1 decode to
\* VoltageState and registers 4-5 to TemperatureState, bit for bit.
PublishInvariant ==
    pc \in {"debug", "task"} =>
       /\ ReadFloatFromHreg(hreg, REG_VOLTAGE) = voltage
       /\ ReadFloatFromHreg(hreg, REG_TEMPERATURE) = temperature

\* C7 witness: an iteration in which neither value changed and no trace
\* line was printed, but a client had overwritten the temperature slot, has
\* ended with the registers restored.
PublishWitness ==
    /\ IterationEnded
    /\ ~TraceEmitted
    /\ WroteTemperature
    /\ voltage = it.v0 /\ temperature = it.t0
    /\ ReadFloatFromHreg(hreg, REG_TEMPERATURE) = temperature

\* The direction after a ramp step from v in direction d.
DirectionAfter(v, d) ==
    LET r == FAddTenth(v, d)
    IN  IF FLe(r, AUTO_MIN) THEN 1 ELSE IF FGe(r, AUTO_MAX) THEN -1 ELSE d

\* C8: in an iteration whose request wrote the temperature slot, the write
\* lands in registers 4-5 but TemperatureState, VoltageState and the ramp
\* direction are what they would be without it: right after the write they
\* are unchanged, no remote voltage is adopted, TemperatureState changes
\* only to a valid sensor reading, VoltageState and the direction only by
\* the ramp, the encoder and the clamp; once published, registers 4-5
\* decode to TemperatureState again.
TemperatureWriteIgnored ==
    WroteTemperature =>
       /\ pc = "client" =>
             /\ ReadFloatFromHreg(hreg, REG_TEMPERATURE) \in RemoteTemps
             /\ voltage = it.v0 /\ temperature = it.t0
             /\ autoDirection = it.dir0
       /\ "Voltage updated by client" \notin serial
       /\ temperature =
             IF it.polled /\ it.tempC # DEVICE_DISCONNECTED_C
             THEN it.tempC ELSE it.t0
       /\ temperature \notin RemoteTemps
       /\ autoDirection =
             IF it.due THEN DirectionAfter(it.v0, it.dir0) ELSE it.dir0
       /\ IterationEnded => voltage = Arbitrated(it.v0)
       /\ pc \in {"debug", "task"} =>
             ReadFloatFromHreg(hreg, REG_TEMPERATURE) = temperature

\* C8 witness: 40.0 was written to the temperature slot, the iteration has
\* ended, and registers 4-5 decode to the unchanged 25.0.
TemperatureWriteWitness ==
    /\ IterationEnded
    /\ it.req = [addr |-> REG_TEMPERATURE,
                 words |-> << ABOVE_MAX[1], ABOVE_MAX[0] >>]
    /\ ~it.polled
    /\ temperature = TEMPERATURE_INIT
    /\ ReadFloatFromHreg(hreg, REG_TEMPERATURE) = TEMPERATURE_INIT

\* C9: TemperatureState is never the disconnected sentinel and the sentinel
\* is never in registers 4-5 after a publish; after a poll that returned
\* the sentinel TemperatureState is what it was before, after a poll that
\* returned a valid reading it is that reading, and without a poll it is
\* unchanged.
SensorDisconnectRetains ==
    /\ temperature # DEVICE_DISCONNECTED_C
    /\ pc \in {"publish", "debug", "task"} =>
          temperature = IF ~it.polled THEN it.t0
                        ELSE IF it.tempC = DEVICE_DISCONNECTED_C THEN it.t0
                        ELSE it.tempC
    /\ pc \in {"debug", "task"} =>
          ReadFloatFromHreg(hreg, REG_TEMPERATURE) # DEVICE_DISCONNECTED_C

\* C9 witness: TemperatureState was 26.5 from an earlier poll, a poll
\* returned the sentinel, and TemperatureState is still 26.5.
SensorDisconnectWitness ==
    /\ IterationEnded
    /\ it.polled
    /\ it.tempC = DEVICE_DISCONNECTED_C
    /\ it.t0 = READING_A
    /\ temperature = READING_A

\* C10: the encoder block applies exactly the step the sampled levels call
\* for - none without an edge on the primary channel, one step of +0.1 when
\* the secondary level differs from the new primary level, one of -0.1 when
\* it equals it (0.1 to within the rounding of one single-precision
\* addition) - before the clamp, and leaves the stored level equal to the
\* sample.
EncoderEdgeDetection ==
    [][ pc = "encoder" =>
          LET edge == it'.clk # lastCLK
              step == IF ~edge THEN 0
                      ELSE IF it'.dt # it'.clk THEN 1 ELSE -1
          IN  /\ voltage' = Moved(voltage, step)
              /\ (InWindow(voltage) /\ InWindow(voltage')) =>
                    AbsInt(Val(voltage') - Val(voltage) - step * TenthUnits)
                       <= 20
              /\ lastCLK' = it'.clk
              /\ pc' = "clamp" ]_vars

\* C10 witness: the primary channel went from 0 to 1 with the secondary at
\* 0 in an iteration without remote write or ramp step, and VoltageState is
\* one step above where the iteration began.
EncoderWitness ==
    /\ pc = "clamp"
    /\ it.clk0 = 0 /\ it.clk = 1 /\ it.dt = 0
    /\ lastCLK = 1
    /\ ~it.due
    /\ "Voltage updated by client" \notin serial
    /\ voltage = FAddTenth(it.v0, 1)
    /\ Val(voltage) > Val(it.v0)

\* The two finite values differ by at most 0.01 (52428.8 units).
WithinTol(a, b) == ~DiffersBeyondTol(a, b)

\* C11: the trace line is printed in an iteration exactly when VoltageState
\* or TemperatureState differs by more than 0.01 from the value recorded
\* when the line was last printed; the recorded values become the current
\* ones when the line is printed and are touched by nothing else; and of two
\* consecutive iterations across the second of which VoltageState and
\* TemperatureState each moved by at most 0.01, at most one printed the
\* line.
ChangeLogSuppression ==
    /\ [][ IF pc = "debug"
           THEN /\ TraceEmitted' <=> (DiffersBeyondTol(voltage, lastV)
                                      \/ DiffersBeyondTol(temperature, lastT))
                /\ IF TraceEmitted'
                   THEN lastV' = voltage /\ lastT' = temperature
                   ELSE lastV' = lastV /\ lastT' = lastT
           ELSE /\ lastV' = lastV /\ lastT' = lastT
                /\ ~TraceEmitted' ]_vars
    /\ [] ( ( /\ IterationEnded
              /\ WithinTol(it.v0, voltage)
              /\ WithinTol(it.t0, temperature) )
            => ~(it.traced0 /\ TraceEmitted) )

\* C11 witness: the second of two consecutive iterations across each of
\* which VoltageState and TemperatureState moved by at most 0.01 but not
\* both stayed put; the first printed nothing, and the second printed the
\* line because TemperatureState had drifted more than 0.01 away from the
\* recorded value.
ChangeLogWitness ==
    /\ IterationEnded
    /\ iter >= 2
    /\ WithinTol(it.v0, voltage)
    /\ WithinTol(it.t0, temperature)
    /\ it.t0 # temperature
    /\ ~it.traced0
    /\ TraceEmitted
    /\ lastT = temperature
    /\ lastV = voltage

\* C12: as long as the network has not reported connected, setup() is still
\* before or inside its wait loop - however long it has waited - so the
\* server is not started, no register exists, the start banner has not been
\* printed and no iteration of loop() has begun; and when setup() has
\* finished, before the first iteration, the network is connected, the
\* server is started and registers 0-1 and 4-5 hold the words of 24.0
\* (0x41C0, 0x0000) and 25.0 (0x41C8, 0x0000).
StartupOrdering ==
    /\ ~wifi =>
          /\ pc \in {"boot", "wifi"}
          /\ ~serverUp
          /\ hreg = << >>
          /\ "Modbus TCP Slave started" \notin serial
          /\ iter = 0
    /\ pc \notin {"boot", "wifi"} => wifi /\ serverUp
    /\ (pc = "task" /\ iter = 0) =>
          /\ DOMAIN hreg = {0, 1, 4, 5}
          /\ hreg[0] = 16832 /\ hreg[1] = 0
          /\ hreg[4] = 16840 /\ hreg[5] = 0
          /\ voltage = Flt(16832, 0)
          /\ temperature = Flt(16840, 0)

\* C12 witness: setup() has finished after the wait loop spun twice (1000 ms
\* on the clock) and the network then associated; the registers hold the
\* defaults and no iteration has run.
StartupWitness ==
    /\ pc = "task"
    /\ iter = 0
    /\ wifi
    /\ serverUp
    /\ now = << 0, 2 * WIFI_DELAY_MS >>
    /\ hreg[0] = 16832
    /\ hreg[4] = 16840
    /\ "Modbus TCP Slave started" \in serial

\* The clock value x in milliseconds, for clocks that have not wrapped.
Ms(x) == x[1] * WordMod + x[2]

\* C13: the ramp block steps VoltageState exactly in the iterations in
\* which the clock is at least 1000 ms past lastAutoUpdate, and then stamps
\* lastAutoUpdate with the clock; otherwise it leaves both alone, and no
\* other block touches lastAutoUpdate - so the block steps at most once per
\* iteration and two successive steps are at least 1000 ms apart.  The
\* temperature block polls exactly when the clock is at least 1000 ms past
\* lastTempUpdate and stamps lastTempUpdate with the clock after the
\* conversion; TemperatureState changes only in a poll and no other block
\* touches lastTempUpdate - so two changes of TemperatureState are at
\* least 1000 ms apart.
CadenceGating ==
    [][ /\ pc = "auto" =>
              LET due == Ms(now) - Ms(lastAutoUpdate) >= 1000
              IN  /\ ~it.due
                  /\ it'.due <=> due
                  /\ due => /\ lastAutoUpdate' = now
                            /\ voltage' = FAddTenth(voltage, autoDirection)
                  /\ ~due => /\ lastAutoUpdate' = lastAutoUpdate
                             /\ voltage' = voltage
                  /\ now' = now
        /\ pc # "auto" => lastAutoUpdate' = lastAutoUpdate
        /\ pc = "temp" =>
              LET due == Ms(now) - Ms(lastTempUpdate) >= 1000
              IN  /\ ~it.polled
                  /\ it'.polled <=> due
                  /\ due => /\ lastTempUpdate' = now'
                            /\ Ms(now') >= Ms(now)
                            /\ temperature' \in {temperature, it'.tempC}
                  /\ ~due => /\ lastTempUpdate' = lastTempUpdate
                             /\ temperature' = temperature
                             /\ now' = now
        /\ pc # "temp" => /\ lastTempUpdate' = lastTempUpdate
                          /\ temperature' = temperature ]_vars

\* C13 witness: the second iteration has just stepped the ramp, 1000 ms or
\* more after the step of the first iteration, while the temperature was
\* polled later than the ramp in the first iteration and is not yet due.
CadenceWitness ==
    /\ pc = "temp"
    /\ iter = 1
    /\ it.due
    /\ lastAutoUpdate = now
    /\ Ms(now) >= 2 * INTERVAL_MS
    /\ Ms(now) - Ms(lastTempUpdate) = 500

\* C14: the ramp direction is always +1 or -1; the step in which the ramp
\* block fires leaves it at -1 if the stepped value (before the clamp) is
\* at or above AUTO_MAX, at +1 if that value is at or below AUTO_MIN, and
\* as it was otherwise; every other step - setup, remote-write adoption,
\* the encoder block, the clamp, the temperature poll, publishing, the
\* debug output, and a ramp block that is not due - leaves it as it was,
\* wherever it moves VoltageState.
DirectionUpdate ==
    /\ [] (autoDirection \in {-1, 1})
    /\ [][ IF pc = "auto" /\ it'.due
           THEN autoDirection' =
                   IF FGe(voltage', AUTO_MAX) THEN -1
                   ELSE IF FLe(voltage', AUTO_MIN) THEN 1
                   ELSE autoDirection
           ELSE autoDirection' = autoDirection ]_vars

\* C14 witness: the second iteration began with VoltageState at or above
\* AUTO_MAX and the direction still +1 (the first iteration adopted a remote
\* write without stepping the ramp), served no request, and its ramp step
\* has just turned the direction to -1.
DirectionWitness ==
    /\ pc = "encoder"
    /\ iter = 1
    /\ it.req = NoRequest
    /\ FGe(it.v0, AUTO_MAX)
    /\ it.dir0 = 1
    /\ it.due
    /\ autoDirection = -1

\* AUTO_MIN - 0.1
BELOW_AUTO_MIN == FAddTenth(AUTO_MIN, -1)

\* AUTO_MIN <= v <= AUTO_MAX
InBand(v) == FLe(AUTO_MIN, v) /\ FLe(v, AUTO_MAX)

\* AUTO_MIN - 0.1 < v < AUTO_MAX + 0.1
InWideBand(v) == FGt(v, BELOW_AUTO_MIN) /\ FLt(v, ABOVE_AUTO_MAX)

\* C15 as stated (its second half): with the ramp alone, once an iteration
\* begins with VoltageState inside [AUTO_MIN, AUTO_MAX] it ends with
\* VoltageState inside [AUTO_MIN, AUTO_MAX].
ReturnStaysInBand ==
    (IterationEnded /\ InBand(it.v0)) => InBand(voltage)

\* What one iteration of the ramp alone does, seen at its end: from at or
\* above AUTO_MAX + 0.1 the direction ends at -1 and, if it already was -1,
\* VoltageState is one step lower; from at or below AUTO_MIN - 0.1 the
\* direction ends at +1 and, if it already was +1, VoltageState is one step
\* higher; from inside (AUTO_MIN - 0.1, AUTO_MAX + 0.1) VoltageState stays
\* inside it; VoltageState sits at a hard limit after the first iteration
\* at most; and after 76 iterations it is inside
\* (AUTO_MIN - 0.1, AUTO_MAX + 0.1).
ReturnProgress ==
    IterationEnded =>
       /\ it.due
       /\ FGe(it.v0, ABOVE_AUTO_MAX) =>
             /\ autoDirection = -1
             /\ it.dir0 = -1 =>
                   AbsInt(Val(voltage) - Val(it.v0) + TenthUnits) <= 10
       /\ FLe(it.v0, BELOW_AUTO_MIN) =>
             /\ autoDirection = 1
             /\ it.dir0 = 1 =>
                   AbsInt(Val(voltage) - Val(it.v0) - TenthUnits) <= 10
       /\ InWideBand(it.v0) => InWideBand(voltage)
       /\ iter >= 2 => voltage \notin {HARD_MIN, HARD_MAX}
       /\ iter >= 76 => InWideBand(voltage)

\* C15 as amended: with the ramp alone, from VoltageState at a hard limit
\* or at 29.9 V and either direction, every tick outside the band moves
\* VoltageState one step towards it, except that the first tick may instead
\* turn the direction; VoltageState is never at a hard limit after the
\* second tick, and eventually it is inside (AUTO_MIN - 0.1, AUTO_MAX + 0.1)
\* for good.
ReturnToBand ==
    /\ []ReturnProgress
    /\ <>[]InWideBand(voltage)

\* C15 witness: the ramp came down from the upper hard limit, crossed the
\* band, turned 15 ulp below AUTO_MIN at tick 76, turned again just under
\* AUTO_MAX + 0.1 and is now, at tick 138, 15 ulp below AUTO_MIN again with
\* the direction turned upwards.
ReturnWitness ==
    /\ IterationEnded
    /\ iter = 138
    /\ voltage = Flt(16819, 65521)
    /\ FLt(voltage, AUTO_MIN)
    /\ InWideBand(voltage)
    /\ it.dir0 = -1
    /\ autoDirection = 1

\* The request of the current iteration left registers 0-1 alone.
NoVoltageWrite == it.req.words = << >> \/ it.req.addr >= REG_VOLTAGE + 2

\* C16: in an iteration - the first after setup() included - whose request
\* did not write registers 0-1, the value read back from them is
\* VoltageState as the iteration found it, bit for bit; the remote-write
\* detection does not fire (no adoption is traced and VoltageState is still
\* that value after the detection); and the iteration ends with that value
\* moved by the ramp step if due, the encoder step if any, and the clamp.
NoSpuriousOverride ==
    ( /\ pc \in {"auto", "encoder", "clamp", "temp", "publish", "debug", "task"}
      /\ iter > 0 \/ pc # "task"
      /\ NoVoltageWrite )
    => /\ clientVoltage = it.v0
       /\ "Voltage updated by client" \notin serial
       /\ pc = "auto" => voltage = it.v0
       /\ IterationEnded => voltage = Arbitrated(it.v0)

\* C16 witness: the first iteration stepped VoltageState from 24.0 to 24.1;
\* the second, without a request, has read 24.1 back from the registers and
\* not taken it for a remote write.
NoSpuriousOverrideWitness ==
    /\ pc = "auto"
    /\ iter = 1
    /\ it.req = NoRequest
    /\ it.v0 = FAddTenth(VOLTAGE_INIT, 1)
    /\ clientVoltage = it.v0
    /\ voltage = it.v0
    /\ "Voltage updated by client" \notin serial

\* The float registers 0-1 hold once the current iteration's request has
\* been served: the two words of a two-register write to address 0, or the
\* published high word with the word of a one-register write to address 1.
WrittenVoltage ==
    IF it.req.addr = REG_VOLTAGE /\ Len(it.req.words) = 2
    THEN Flt(it.req.words[1], it.req.words[2])
    ELSE IF it.req.addr = REG_VOLTAGE + 1 /\ Len(it.req.words) = 1
    THEN Flt(it.v0[1], it.req.words[1])
    ELSE it.v0

\* C17: in an iteration whose request wrote to registers 0-1 a value within
\* 0.01 of VoltageState, the value read back is the written one, the
\* remote-write detection does not fire (no adoption is traced,
\* VoltageState is unchanged after the detection), the iteration ends with
\* VoltageState moved by ramp, encoder and clamp only, registers 0-1 hold
\* VoltageState, and nothing but the trace line has been printed.
SubToleranceDropped ==
    ( /\ pc \in {"auto", "encoder", "clamp", "temp", "publish", "debug", "task"}
      /\ iter > 0 \/ pc # "task"
      /\ ~NoVoltageWrite
      /\ InWindow(WrittenVoltage)
      /\ WithinTol(WrittenVoltage, it.v0) )
    => /\ clientVoltage = WrittenVoltage
       /\ "Voltage updated by client" \notin serial
       /\ pc = "auto" => voltage = it.v0
       /\ IterationEnded =>
             /\ voltage = Arbitrated(it.v0)
             /\ hreg[REG_VOLTAGE] = voltage[1]
             /\ hreg[REG_VOLTAGE + 1] = voltage[0]
             /\ serial \subseteq {"Voltage = | Temperature ="}

\* C17 witness: the second iteration served a write of a value 52420 units
\* (just under 0.01 V) above VoltageState, neither the ramp nor the encoder
\* stepped, and the iteration has ended with VoltageState as it was and the
\* registers holding it instead of the written value.
SubToleranceWitness ==
    /\ IterationEnded
    /\ iter = 2
    /\ it.req.addr = REG_VOLTAGE
    /\ Val(WrittenVoltage) = Val(it.v0) + 52420
    /\ ~it.due /\ ExpectedManual = 0
    /\ voltage = it.v0
    /\ hreg[REG_VOLTAGE] = it.v0[1] /\ hreg[REG_VOLTAGE + 1] = it.v0[0]
    /\ hreg[REG_VOLTAGE + 1] # it.req.words[2]
    /\ serial = {}

\* Real time in milliseconds relative to the instant the 32-bit clock wraps:
\* negative for clock values in the upper half of the range (before the
\* wrap), the clock value itself after it.
SinceWrap(x) ==
    IF x[1] >= WordMod \div 2
    THEN (x[1] - WordMod) * WordMod + x[2]
    ELSE x[1] * WordMod + x[2]

\* C18: across the wrap of the millisecond clock, real time never runs
\* backwards; the ramp block fires exactly in the iterations in which 1000
\* ms or more of real time have passed since it last fired, and then
\* stamps lastAutoUpdate with the clock; the temperature block polls
\* exactly when 1000 ms or more of real time have passed since its stamp
\* and stamps lastTempUpdate with the clock after the conversion - whether
\* the stamp was taken before the wrap and the test is made after it, or
\* both lie on the same side.
ClockWrapCadence ==
    [][ /\ SinceWrap(now') >= SinceWrap(now)
        /\ pc = "auto" =>
              LET due == SinceWrap(now) - SinceWrap(lastAutoUpdate) >= 1000
              IN  /\ it'.due <=> due
                  /\ due => /\ lastAutoUpdate' = now
                            /\ voltage' # voltage
                  /\ ~due => /\ lastAutoUpdate' = lastAutoUpdate
                             /\ voltage' = voltage
        /\ pc = "temp" =>
              LET due == SinceWrap(now) - SinceWrap(lastTempUpdate) >= 1000
              IN  /\ it'.polled <=> due
                  /\ due => lastTempUpdate' = now'
                  /\ ~due => lastTempUpdate' = lastTempUpdate ]_vars

\* C18 witness: the first iteration took 1000 ms, which brought the clock
\* from 2^32 - 1000 to 0; the ramp block, stamped 1000 or 1500 ms before the
\* wrap, has fired and restamped at clock value 0, while the temperature
\* stamp is still from before the wrap.
ClockWrapWitness ==
    /\ pc = "encoder"
    /\ iter = 0
    /\ it.due
    /\ now = << 0, 0 >>
    /\ lastAutoUpdate = now
    /\ lastTempUpdate[1] = WordMod - 1
    /\ voltage # it.v0

====
